---- MODULE Spec2Model ----
(***************************************************************************)
(* A model of bizscope.py: the upload parser (process_uploaded_file,       *)
(* parse_company_data), the filter (apply_filters) and the enrichment      *)
(* batch (fetch_company_data, enrich_company_data_async) as driven by      *)
(* main.  Python strings are sequences of one-character strings; a pandas  *)
(* DataFrame is a record of its column names and its rows, each row        *)
(* carrying its index label.                                               *)
(***************************************************************************)
EXTENDS Integers, Sequences, FiniteSets, TLC

VARIABLES
    content,          \* the uploaded file's text (uploaded_file.getvalue().decode)
    name_filter,      \* st.text_input("Company Name (fuzzy search)")
    location_filter,  \* st.text_input("Location")
    api_key,          \* st.text_input("OpenCorporates API Key ...")
    pc,               \* main's position
    companies_df,     \* main's companies_df
    filtered_df,      \* main's filtered_df, the frame handed to enrich_company_data
    same_object,      \* filtered_df is the very object companies_df
    tasks,            \* enrich_company_data_async's tasks, one fetch per entry
    enriched_data,    \* what asyncio.gather returned
    i,                \* the merge loop's enumerate index
    writes,           \* per merge iteration, the index label it wrote
    ui                \* the st.error / st.warning messages shown so far

vars == <<content, name_filter, location_filter, api_key, pc, companies_df,
          filtered_df, same_object, tasks, enriched_data, i, writes, ui>>

----------------------------------------------------------------------------
(* Python string primitives                                                *)

NL == "\n"

Whitespace == {" ", NL, "\t", "\r"}

Unknown == <<"U", "n", "k", "n", "o", "w", "n">>

\* pandas' missing value: the cell of a row or column created by enlargement
NaN == <<"N", "a", "N">>

RECURSIVE LStrip(_)
LStrip(s) ==
    IF s # <<>> /\ Head(s) \in Whitespace THEN LStrip(Tail(s)) ELSE s

RECURSIVE RStrip(_)
RStrip(s) ==
    IF s # <<>> /\ s[Len(s)] \in Whitespace
    THEN RStrip(SubSeq(s, 1, Len(s) - 1))
    ELSE s

\* str.strip()
Strip(s) == RStrip(LStrip(s))

\* s[p..] starts with sep
StartsAt(s, sep, p) ==
    /\ p + Len(sep) - 1 <= Len(s)
    /\ \A j \in 1..Len(sep) : s[p + j - 1] = sep[j]

\* str.split(sep): cut at the occurrences of sep, found left to right and
\* not overlapping; the result always has at least one element
RECURSIVE Split(_, _)
Split(s, sep) ==
    LET hits == {p \in 1..Len(s) : StartsAt(s, sep, p)}
    IN  IF hits = {}
        THEN <<s>>
        ELSE LET p == CHOOSE q \in hits : \A r \in hits : q <= r
             IN  <<SubSeq(s, 1, p - 1)>>
                 \o Split(SubSeq(s, p + Len(sep), Len(s)), sep)

\* c in s, for a one-character c
HasChar(s, c) == \E j \in 1..Len(s) : s[j] = c

----------------------------------------------------------------------------
(* DataFrames                                                              *)

\* a row: its index label and its cells, by column name
Row(label, cells) == [label |-> label, cells |-> cells]

DataFrame(columns, rows) == [columns |-> columns, rows |-> rows]

Labels(df) == {df.rows[k].label : k \in 1..Len(df.rows)}

HasColumn(df, c) == \E k \in 1..Len(df.columns) : df.columns[k] = c

\* the position of the row labelled l
PosOf(df, l) == CHOOSE k \in 1..Len(df.rows) : df.rows[k].label = l

\* df[mask]: the rows whose mask entry is TRUE, labels and order kept
RECURSIVE SelectRows(_, _)
SelectRows(rows, mask) ==
    IF rows = <<>> THEN <<>>
    ELSE (IF Head(mask) THEN <<Head(rows)>> ELSE <<>>)
         \o SelectRows(Tail(rows), Tail(mask))

\* cells with column c set to v (the column is created when missing)
WithCell(cells, c, v) ==
    [d \in DOMAIN cells \cup {c} |-> IF d = c THEN v ELSE cells[d]]

\* df[c] = values: a whole column assigned, row by row
SetColumn(df, c, values) ==
    DataFrame(IF HasColumn(df, c) THEN df.columns ELSE Append(df.columns, c),
              [k \in 1..Len(df.rows) |->
                  Row(df.rows[k].label, WithCell(df.rows[k].cells, c, values[k]))])

\* df.at[label, c] = v: the labelled row's cell when the label exists;
\* otherwise the frame is enlarged by a row with that label, NaN elsewhere.
\* A column that did not exist is created, NaN in the other rows.
AtSet(df, label, c, v) ==
    LET columns == IF HasColumn(df, c) THEN df.columns ELSE Append(df.columns, c)
        colset == {columns[k] : k \in 1..Len(columns)}
        widened == [k \in 1..Len(df.rows) |->
                       Row(df.rows[k].label,
                           [d \in colset |->
                               IF d \in DOMAIN df.rows[k].cells
                               THEN df.rows[k].cells[d] ELSE NaN])]
    IN  IF label \in Labels(df)
        THEN DataFrame(columns,
                       [k \in 1..Len(widened) |->
                           IF widened[k].label = label
                           THEN Row(label, WithCell(widened[k].cells, c, v))
                           ELSE widened[k]])
        ELSE DataFrame(columns,
                       Append(widened,
                              Row(label, [d \in colset |-> IF d = c THEN v ELSE NaN])))

\* df.at[label, c]
AtGet(df, label, c) == df.rows[PosOf(df, label)].cells[c]

----------------------------------------------------------------------------
(* RecordParser                                                            *)

StatusMinLines == 6

ParsedColumns ==
    <<"name", "employees", "category", "location", "id", "status", "contact">>

\* lines[k] with Python's 0-based index, "Unknown" when the line is absent
LineOr(lines, k) == IF Len(lines) > k THEN lines[k + 1] ELSE Unknown

parse_company_data(block) ==
    LET lines == Split(Strip(block), <<NL>>)
        n == Len(lines)
    IN  [name      |-> LineOr(lines, 0),
         employees |-> LineOr(lines, 1),
         category  |-> LineOr(lines, 2),
         location  |-> LineOr(lines, 3),
         id        |-> LineOr(lines, 4),
         status    |-> IF n > StatusMinLines THEN lines[n - 1] ELSE Unknown,
         contact   |-> IF HasChar(lines[n], "@") THEN lines[n] ELSE Unknown]

company_blocks(text) == Split(Strip(text), <<NL, NL>>)

\* pd.DataFrame(companies): one row per block, labelled 0, 1, ... in order
process_uploaded_file(text) ==
    LET blocks == company_blocks(text)
    IN  DataFrame(ParsedColumns,
                  [k \in 1..Len(blocks) |->
                      Row(k - 1, parse_company_data(blocks[k]))])

----------------------------------------------------------------------------
(* Filter                                                                  *)

Threshold == 80

Max(a, b) == IF a >= b THEN a ELSE b

SetMax(S) == CHOOSE x \in S : \A y \in S : y <= x

\* length of a longest common subsequence
RECURSIVE LCS(_, _)
LCS(a, b) ==
    IF a = <<>> \/ b = <<>> THEN 0
    ELSE IF Head(a) = Head(b) THEN 1 + LCS(Tail(a), Tail(b))
    ELSE Max(LCS(Tail(a), b), LCS(a, Tail(b)))

\* fuzz.ratio, the normalised indel similarity 2*LCS/(|a|+|b|) on the scale
\* 0..100, kept in hundredths so that the score stays an integer
Ratio(a, b) ==
    IF Len(a) + Len(b) = 0 THEN 10000
    ELSE (20000 * LCS(a, b)) \div (Len(a) + Len(b))

\* the windows of long that a needle of length m is aligned with: every
\* substring of length m, and the shorter prefixes and suffixes
Windows(long, m) ==
    {w \in {SubSeq(long, a, b) : a \in 1..Len(long), b \in 1..Len(long)} :
        /\ Len(w) >= 1
        /\ Len(w) <= m
        /\ \/ Len(w) = m
           \/ w = SubSeq(long, 1, Len(w))
           \/ w = SubSeq(long, Len(long) - Len(w) + 1, Len(long))}

\* fuzz.partial_ratio(s1, s2): the best ratio of the shorter string against
\* an aligned window of the longer one, in hundredths
partial_ratio(s1, s2) ==
    LET OneWay(short, long) == SetMax({Ratio(short, w) : w \in Windows(long, Len(short))})
    IN  IF s1 = <<>> /\ s2 = <<>> THEN 10000
        ELSE IF s1 = <<>> \/ s2 = <<>> THEN 0
        ELSE IF Len(s1) < Len(s2) THEN OneWay(s1, s2)
        ELSE IF Len(s2) < Len(s1) THEN OneWay(s2, s1)
        ELSE Max(OneWay(s1, s2), OneWay(s2, s1))

UpperCase ==
    <<"A", "B", "C", "D", "E", "F", "G", "H", "I", "J", "K", "L", "M",
      "N", "O", "P", "Q", "R", "S", "T", "U", "V", "W", "X", "Y", "Z">>

LowerCase ==
    <<"a", "b", "c", "d", "e", "f", "g", "h", "i", "j", "k", "l", "m",
      "n", "o", "p", "q", "r", "s", "t", "u", "v", "w", "x", "y", "z">>

\* case folding of one character (re.IGNORECASE)
Lower(c) ==
    IF \E k \in 1..Len(UpperCase) : UpperCase[k] = c
    THEN LowerCase[CHOOSE k \in 1..Len(UpperCase) : UpperCase[k] = c]
    ELSE c

\* Series.str.contains(pat, case=False, na=False): pat is searched as a
\* regular expression, ignoring case, and a missing value gives False.  Of the
\* regular-expression syntax the model has the literal characters and ".",
\* which matches any character but a newline.
str_contains(value, pat) ==
    /\ value # NaN
    /\ \E p \in 1..(Len(value) - Len(pat) + 1) :
          \A j \in 1..Len(pat) :
              \/ pat[j] = "." /\ value[p + j - 1] # NL
              \/ pat[j] # "." /\ Lower(pat[j]) = Lower(value[p + j - 1])

\* apply_filters: the frame returned, the input frame as the call leaves it,
\* and whether the two are one object
apply_filters(df, nf, lf) ==
    LET scored == IF nf # <<>>
                  THEN SetColumn(df, "name_match",
                                 [k \in 1..Len(df.rows) |->
                                     <<partial_ratio(nf, df.rows[k].cells.name)>>])
                  ELSE df
        by_name == IF nf # <<>>
                   THEN DataFrame(scored.columns,
                            SelectRows(scored.rows,
                                [k \in 1..Len(scored.rows) |->
                                    scored.rows[k].cells.name_match[1] > Threshold * 100]))
                   ELSE scored
        by_loc == IF lf # <<>>
                  THEN DataFrame(by_name.columns,
                           SelectRows(by_name.rows,
                               [k \in 1..Len(by_name.rows) |->
                                   str_contains(by_name.rows[k].cells.location, lf)]))
                  ELSE by_name
    IN  [companies_df |-> scored,
         filtered_df  |-> by_loc,
         same_object  |-> nf = <<>> /\ lf = <<>>]

----------------------------------------------------------------------------
(* EnrichmentClient: one fetch                                             *)

Attempts == 3

\* a Python dict is a set of <<key, value>> pairs
Get(d, key, default) ==
    IF \E e \in d : e[1] = key
    THEN (CHOOSE e \in d : e[1] = key)[2]
    ELSE default

\* JSON values of a response body: null, a string, an object
JNull == [t |-> "null", s |-> <<>>, d |-> {}]

JStr(s) == [t |-> "str", s |-> s, d |-> {}]

JObj(d) == [t |-> "dict", s |-> <<>>, d |-> d]

Returned(value) == [kind |-> "return", value |-> value]

Raised(exc) == [kind |-> "raise", value |-> {<<"exc", exc>>}]

\* lines 43-48 on the decoded body: the dict returned, or the exception that
\* `key in None`, `None[key]` or `None.get` raises.  Falling out of the if
\* reaches the function's final `return {}`.
extract_company(data) ==
    IF data.t # "dict" THEN Raised("TypeError")
    ELSE IF ~(\E e \in data.d : e[1] = "results") THEN Returned({})
    ELSE LET results == Get(data.d, "results", JNull)
         IN  IF results.t # "dict" THEN Raised("TypeError")
             ELSE IF ~(\E e \in results.d : e[1] = "company") THEN Returned({})
             ELSE LET company_info == Get(results.d, "company", JNull)
                  IN  IF company_info.t # "dict" THEN Raised("AttributeError")
                      ELSE Returned(
                          {<<"company_number",
                             Get(company_info.d, "company_number", JStr(Unknown)).s>>,
                           <<"status",
                             Get(company_info.d, "current_status", JStr(Unknown)).s>>})

\* what one HTTP attempt can end in: a response, or an exception of the
\* transport (an aiohttp.ClientError, or the asyncio.TimeoutError of the
\* session's total timeout, which is no ClientError)
Response(status, body) == [kind |-> "response", status |-> status, body |-> body, exc |-> ""]

Failure(exc) == [kind |-> "exception", status |-> 0, body |-> JNull, exc |-> exc]

\* the registry's answer for a company that it knows
BodyCompany(name) ==
    JObj({<<"results",
            JObj({<<"company",
                    JObj({<<"company_number", JStr(<<"#">> \o name)>>,
                          <<"current_status", JStr(<<"A", "c", "t", "i", "v", "e">>)>>})>>})>>})

BodyBare == JObj({<<"results", JObj({<<"company", JObj({})>>})>>})

BodyEmpty == JObj({})

BodyNullResults == JObj({<<"results", JNull>>})

AttemptOutcomes(name) ==
    <<Response(200, BodyCompany(name)),
      Response(200, BodyBare),
      Response(200, BodyEmpty),
      Response(200, BodyNullResults),
      Response(404, JNull),
      Response(500, JNull),
      Failure("ClientError"),
      Failure("TimeoutError")>>

\* RetryClient with ExponentialRetry(attempts=3) and the library's defaults:
\* a 5xx response is retried until the last attempt, whose response is handed
\* back whatever its status; an exception of the last attempt is re-raised,
\* and an earlier one is retried or re-raised (the set of exceptions retried
\* by default differs between releases of the library).
RetryDecision(attempt, outcome) ==
    IF outcome.kind = "response"
    THEN IF outcome.status >= 500 /\ attempt < Attempts THEN {"retry"} ELSE {"deliver"}
    ELSE IF attempt >= Attempts THEN {"deliver"} ELSE {"retry", "deliver"}

\* aiohttp.ClientError's subclasses, as far as the outcomes go
IsClientError(exc) == exc = "ClientError"

Message(kind, about, detail) == [kind |-> kind, about |-> about, detail |-> detail]

NewTask(name) ==
    [name |-> name, st |-> "created", sleeps |-> 0, attempts |-> 0,
     retried |-> {}, warned |-> 0, errored |-> 0, last |-> "none", result |-> {}]

\* lines 39: the pacing delay, after which the request is issued
AfterSleep(t) == [t EXCEPT !.st = "requesting", !.sleeps = @ + 1]

\* the RetryClient goes round again: the fetch is still inside session.get
AfterRetry(t, outcome) ==
    [t EXCEPT !.attempts = @ + 1,
              !.retried = @ \cup {IF outcome.kind = "response" THEN "status" ELSE "exception"}]

OutcomeName(outcome) ==
    IF outcome.kind = "exception" THEN outcome.exc
    ELSE IF outcome.status = 200 THEN "200" ELSE "non200"

\* lines 40-53 once session.get has delivered: the task as it settles
AfterDeliver(t, outcome) ==
    LET u == [t EXCEPT !.attempts = @ + 1, !.last = OutcomeName(outcome)]
    IN  IF outcome.kind = "response"
        THEN IF outcome.status = 200
             THEN LET r == extract_company(outcome.body)
                  IN  IF r.kind = "return"
                      THEN [u EXCEPT !.st = "returned", !.result = r.value]
                      ELSE [u EXCEPT !.st = "raised"]
             ELSE [u EXCEPT !.st = "returned", !.warned = @ + 1, !.result = {}]
        ELSE IF IsClientError(outcome.exc)
             THEN [u EXCEPT !.st = "returned", !.errored = @ + 1, !.result = {}]
             ELSE [u EXCEPT !.st = "raised"]

\* the st.warning / st.error a delivery shows
DeliverMessages(t, outcome) ==
    IF outcome.kind = "response"
    THEN IF outcome.status = 200 THEN {}
         ELSE {Message("warning", t.name, "HTTP")}
    ELSE IF IsClientError(outcome.exc)
         THEN {Message("error", t.name, outcome.exc)}
         ELSE {}

----------------------------------------------------------------------------
(* Inputs                                                                  *)

RECURSIVE Join(_, _)
Join(parts, sep) ==
    IF parts = <<>> THEN <<>>
    ELSE IF Len(parts) = 1 THEN parts[1]
    ELSE parts[1] \o sep \o Join(Tail(parts), sep)

\* a file's text from its blocks, each a sequence of lines
FileText(blocks) ==
    Join([k \in 1..Len(blocks) |-> Join(blocks[k], <<NL>>)], <<NL, NL>>)

\* a short block without a location line, and a full block of eight lines
BlockGlob == <<(<<"G", "l", "o", "b">>), (<<"9">>), (<<"O", "i", "l">>)>>

BlockAcme ==
    <<(<<"A", "c", "m", "e">>), (<<"5", "0">>), (<<"T", "e", "c", "h">>),
      (<<"N", "Y", "C">>), (<<"i", "d", "1">>), (<<"x">>),
      (<<"O", "p", "e", "n">>), (<<"c", "@", "a">>)>>

BlockInit == <<(<<"I", "n", "i", "t">>), (<<"3">>), (<<"A", "d">>), (<<"n", "y">>)>>

SampleFiles ==
    {FileText(<<BlockGlob, BlockAcme>>),
     FileText(<<BlockGlob, BlockAcme, BlockInit>>)}

NameFilters == {<<>>, <<"A", "c", "m", "e">>}

LocationFilters == {<<>>, <<"n", "y">>, <<"u", "n">>, <<"N", ".", "C">>}

ApiKeys == {<<>>, <<"k">>}

MaxLen == 6

Alphabet == {"a", "@", NL}

\* every text over the alphabet, up to MaxLen characters
Texts == UNION {[1..n -> Alphabet] : n \in 0..MaxLen}

----------------------------------------------------------------------------
(* main                                                                    *)

NoFrame == DataFrame(<<>>, <<>>)

\* the credential check left out: every key, the empty one too, passes
HasCredentialUnchecked(key) == TRUE

\* line 95: `if api_key:`
HasCredential(key) == key # <<>>

InitWith(files, nfs, lfs) ==
    /\ content \in files
    /\ name_filter \in nfs
    /\ location_filter \in lfs
    /\ api_key = <<>>
    /\ pc = "upload"
    /\ companies_df = NoFrame
    /\ filtered_df = NoFrame
    /\ same_object = FALSE
    /\ tasks = <<>>
    /\ enriched_data = <<>>
    /\ i = 0
    /\ writes = <<>>
    /\ ui = {}

Init == InitWith(SampleFiles, NameFilters, LocationFilters)

\* line 87
Parse ==
    /\ pc = "upload"
    /\ companies_df' = process_uploaded_file(content)
    /\ pc' = "parsed"
    /\ UNCHANGED <<content, name_filter, location_filter, api_key, filtered_df,
                   same_object, tasks, enriched_data, i, writes, ui>>

\* line 89
Filter ==
    /\ pc = "parsed"
    /\ LET r == apply_filters(companies_df, name_filter, location_filter)
       IN  /\ companies_df' = r.companies_df
           /\ filtered_df' = r.filtered_df
           /\ same_object' = r.same_object
    /\ pc' = "filtered"
    /\ UNCHANGED <<content, name_filter, location_filter, api_key, tasks,
                   enriched_data, i, writes, ui>>

\* line 93 with the button not pressed: the frame is only rendered
NoClick ==
    /\ pc = "filtered"
    /\ pc' = "idle"
    /\ UNCHANGED <<content, name_filter, location_filter, api_key, companies_df,
                   filtered_df, same_object, tasks, enriched_data, i, writes, ui>>

\* lines 93-101: the button pressed, with the key the user typed
Click(key) ==
    /\ pc = "filtered"
    /\ api_key' = key
    /\ IF HasCredential(key)
       THEN pc' = "launching" /\ ui' = ui
       ELSE /\ pc' = "no_key"
            /\ ui' = ui \cup {Message("error", <<>>, "api_key")}
    /\ UNCHANGED <<content, name_filter, location_filter, companies_df,
                   filtered_df, same_object, tasks, enriched_data, i, writes>>

----------------------------------------------------------------------------
(* EnrichmentClient: the batch                                             *)

\* lines 60-61: one fetch coroutine per row, in iterrows order
Launch ==
    /\ pc = "launching"
    /\ Len(tasks) < Len(filtered_df.rows)
    /\ tasks' = Append(tasks, NewTask(filtered_df.rows[Len(tasks) + 1].cells.name))
    /\ UNCHANGED <<content, name_filter, location_filter, api_key, pc, companies_df,
                   filtered_df, same_object, enriched_data, i, writes, ui>>

\* line 62: gather is awaited, and the event loop starts running the fetches
Gather ==
    /\ pc = "launching"
    /\ Len(tasks) = Len(filtered_df.rows)
    /\ pc' = "gathering"
    /\ UNCHANGED <<content, name_filter, location_filter, api_key, companies_df,
                   filtered_df, same_object, tasks, enriched_data, i, writes, ui>>

\* line 39 of fetch k
FetchSleep(k) ==
    /\ pc = "gathering"
    /\ tasks[k].st = "created"
    /\ tasks' = [tasks EXCEPT ![k] = AfterSleep(@)]
    /\ UNCHANGED <<content, name_filter, location_filter, api_key, pc, companies_df,
                   filtered_df, same_object, enriched_data, i, writes, ui>>

\* one HTTP attempt of fetch k inside session.get, and what follows it
FetchAttempt(k, outcome) ==
    /\ pc = "gathering"
    /\ tasks[k].st = "requesting"
    /\ \E decision \in RetryDecision(tasks[k].attempts + 1, outcome) :
          IF decision = "retry"
          THEN /\ tasks' = [tasks EXCEPT ![k] = AfterRetry(@, outcome)]
               /\ ui' = ui
          ELSE /\ tasks' = [tasks EXCEPT ![k] = AfterDeliver(@, outcome)]
               /\ ui' = ui \cup DeliverMessages(tasks[k], outcome)
    /\ UNCHANGED <<content, name_filter, location_filter, api_key, pc, companies_df,
                   filtered_df, same_object, enriched_data, i, writes>>

\* line 62: every fetch has returned, gather hands their results back in
\* the order of the tasks
GatherReturn ==
    /\ pc = "gathering"
    /\ \A k \in 1..Len(tasks) : tasks[k].st = "returned"
    /\ enriched_data' = [k \in 1..Len(tasks) |-> tasks[k].result]
    /\ i' = 0
    /\ pc' = "merging"
    /\ UNCHANGED <<content, name_filter, location_filter, api_key, companies_df,
                   filtered_df, same_object, tasks, writes, ui>>

\* line 62: a fetch has raised; gather propagates the exception at once, out
\* of enrich_company_data, and the event loop runs no fetch any further
GatherRaise ==
    /\ pc = "gathering"
    /\ \E k \in 1..Len(tasks) : tasks[k].st = "raised"
    /\ pc' = "raised"
    /\ UNCHANGED <<content, name_filter, location_filter, api_key, companies_df,
                   filtered_df, same_object, tasks, enriched_data, i, writes, ui>>

\* lines 64-65 for enumerate index i
merge_row(df, idx, data) ==
    LET df1 == AtSet(df, idx, "registration_number",
                     Get(data, "company_number", Unknown))
    IN  AtSet(df1, idx, "status", Get(data, "status", AtGet(df1, idx, "status")))

\* the label lines 64-65 address for enumerate index idx
merge_label(idx) == idx

\* lines 63-65, one iteration
Merge ==
    /\ pc = "merging"
    /\ i < Len(enriched_data)
    /\ filtered_df' = merge_row(filtered_df, merge_label(i), enriched_data[i + 1])
    /\ companies_df' = IF same_object THEN filtered_df' ELSE companies_df
    /\ writes' = Append(writes, merge_label(i))
    /\ i' = i + 1
    /\ UNCHANGED <<content, name_filter, location_filter, api_key, pc, same_object,
                   tasks, enriched_data, ui>>

\* lines 67, 73: the frame is returned to main
Return ==
    /\ pc = "merging"
    /\ i = Len(enriched_data)
    /\ pc' = "returned"
    /\ UNCHANGED <<content, name_filter, location_filter, api_key, companies_df,
                   filtered_df, same_object, tasks, enriched_data, i, writes, ui>>

Next ==
    \/ Parse
    \/ Filter
    \/ NoClick
    \/ \E key \in ApiKeys : Click(key)
    \/ Launch
    \/ Gather
    \/ \E k \in 1..Len(tasks) : FetchSleep(k)
    \/ \E k \in 1..Len(tasks) :
          \E n \in 1..Len(AttemptOutcomes(tasks[k].name)) :
              FetchAttempt(k, AttemptOutcomes(tasks[k].name)[n])
    \/ GatherReturn
    \/ GatherRaise
    \/ Merge
    \/ Return

Spec == Init /\ [][Next]_vars

\* the parser alone, on every short text
InitParse == InitWith(Texts \cup SampleFiles, {<<>>}, {<<>>})

NextParse == Parse

SpecParse == InitParse /\ [][NextParse]_vars

----------------------------------------------------------------------------
(* Properties                                                              *)

\* the collection main hands to enrich_company_data, as apply_filters made it
Before == apply_filters(process_uploaded_file(content), name_filter, location_filter)

Settled(k) == tasks[k].st \in {"returned", "raised"}

\* C1: the merge is positional: the result of the fetch launched for the
\* record at position k of the collection handed to enrich_company_data is
\* written to that record and to no other, whatever the rows the filter kept
\* and whatever the order the fetches completed in.
C1_MergeIsPositional ==
    pc \in {"merging", "returned"} =>
        /\ \A k \in 1..Len(writes) : writes[k] = Before.filtered_df.rows[k].label
        /\ pc = "returned" =>
              \A k \in 1..Len(enriched_data) :
                  /\ k <= Len(filtered_df.rows)
                  /\ filtered_df.rows[k].label = Before.filtered_df.rows[k].label
                  /\ filtered_df.rows[k].cells.registration_number
                        = Get(enriched_data[k], "company_number", Unknown)

\* C2: the collection enrich_company_data returns holds exactly the records
\* it was given, one for each, whatever the fetches' outcomes: none is added,
\* none is dropped.
C2_SameRecords ==
    pc = "returned" =>
        /\ Len(filtered_df.rows) = Len(Before.filtered_df.rows)
        /\ \A k \in 1..Len(Before.filtered_df.rows) :
              /\ k <= Len(filtered_df.rows)
              /\ filtered_df.rows[k].label = Before.filtered_df.rows[k].label
              /\ filtered_df.rows[k].cells.name = Before.filtered_df.rows[k].cells.name

\* C3: no exception escapes the batch: a fetch that ends in a non-200
\* status, a transport failure (a timeout too) or a 200 body of another
\* shape than results.company settles as the empty result, and
\* enrich_company_data still returns.
C3_NoExceptionEscapes ==
    /\ pc # "raised"
    /\ \A k \in 1..Len(tasks) :
          /\ tasks[k].st # "raised"
          /\ (tasks[k].st = "returned" /\ tasks[k].last # "200") => tasks[k].result = {}

\* C4: after the merge every record has registration_number = the fetched
\* company_number, or "Unknown" when its fetch returned nothing, and status =
\* the fetched status, or its own status from before the enrichment.
C4_MergedFields ==
    pc = "returned" =>
        /\ \A k \in 1..Len(filtered_df.rows) :
              filtered_df.rows[k].label \in Labels(Before.filtered_df)
        /\ \A k \in 1..Len(Before.filtered_df.rows) :
              LET old == Before.filtered_df.rows[k]
                  data == enriched_data[k]
              IN  /\ old.label \in Labels(filtered_df)
                  /\ AtGet(filtered_df, old.label, "registration_number")
                        = (IF data # {} THEN Get(data, "company_number", Unknown)
                           ELSE Unknown)
                  /\ AtGet(filtered_df, old.label, "status")
                        = (IF data # {} THEN Get(data, "status", Unknown)
                           ELSE old.cells.status)

\* C5: the retry policy of one fetch: only transport failures are retried,
\* a non-200 response is reported once and gives no data, the request is
\* attempted at most 3 times, the pacing delay is waited once and not again
\* before a retry, and a fetch whose third attempt failed settles as no data.
C5_RetryPolicy ==
    \A k \in 1..Len(tasks) :
        /\ tasks[k].retried \subseteq {"exception"}
        /\ tasks[k].attempts <= Attempts
        /\ tasks[k].sleeps <= 1
        /\ tasks[k].attempts > 0 => tasks[k].sleeps = 1
        /\ tasks[k].warned <= 1
        /\ (Settled(k) /\ tasks[k].last = "non200") =>
              tasks[k].warned = 1 /\ tasks[k].st = "returned" /\ tasks[k].result = {}
        /\ (Settled(k) /\ tasks[k].attempts = Attempts
                /\ tasks[k].last \in {"ClientError", "TimeoutError"}) =>
              tasks[k].st = "returned" /\ tasks[k].result = {}

\* C6: when the enrichment is asked for with no API key, the condition is
\* reported, no fetch is launched, no request is made, and no record's
\* status or registration_number changes.
C6_MissingCredential ==
    (api_key = <<>> /\ pc \notin {"upload", "parsed", "filtered", "idle"}) =>
        /\ pc = "no_key"
        /\ Message("error", <<>>, "api_key") \in ui
        /\ tasks = <<>>
        /\ enriched_data = <<>>
        /\ writes = <<>>
        /\ filtered_df = Before.filtered_df
        /\ companies_df = Before.companies_df

\* C6's case: the button pressed with no key, over a collection with records
C6_Witness ==
    /\ pc = "no_key"
    /\ api_key = <<>>
    /\ Len(filtered_df.rows) > 0

\* a line of whitespace only
IsBlankLine(line) == \A j \in 1..Len(line) : line[j] \in Whitespace

\* the blocks of a text: its maximal runs of lines that are not blank
RECURSIVE Runs(_, _)
Runs(lines, run) ==
    IF lines = <<>>
    THEN IF run = <<>> THEN <<>> ELSE <<run>>
    ELSE IF IsBlankLine(Head(lines))
         THEN (IF run = <<>> THEN <<>> ELSE <<run>>) \o Runs(Tail(lines), <<>>)
         ELSE Runs(Tail(lines), Append(run, Head(lines)))

NonEmptyBlocks(text) == Runs(Split(text, <<NL>>), <<>>)

\* C7: process_uploaded_file gives one record per non-empty block, in the
\* order of the input; a blank block (an empty input, blank lines at either
\* end, several blank lines between two blocks) gives no record.
C7_OneRecordPerBlock ==
    pc = "parsed" =>
        LET blocks == NonEmptyBlocks(content)
        IN  /\ Len(companies_df.rows) = Len(blocks)
            /\ \A k \in 1..Len(blocks) :
                  /\ k <= Len(companies_df.rows)
                  /\ companies_df.rows[k].cells
                        = parse_company_data(Join(blocks[k], <<NL>>))

\* C8: apply_filters only filters: the input collection is as it was before
\* the call, and the records returned carry the fields of the input's
\* records, the name-match score in neither.
C8_FilterHasNoSideEffect ==
    pc = "filtered" =>
        /\ companies_df = process_uploaded_file(content)
        /\ filtered_df.columns = ParsedColumns
        /\ \A k \in 1..Len(filtered_df.rows) :
              filtered_df.rows[k].cells
                 = process_uploaded_file(content).rows[filtered_df.rows[k].label + 1].cells

\* the block of the record labelled l had no location line
LocationAbsent(l) ==
    Len(Split(Strip(company_blocks(content)[l + 1]), <<NL>>)) <= 3

\* pat is a substring of value, ignoring case
ContainsIgnoringCase(value, pat) ==
    \E p \in 1..(Len(value) - Len(pat) + 1) :
        \A j \in 1..Len(pat) : Lower(pat[j]) = Lower(value[p + j - 1])

\* C9: with a location filter, apply_filters keeps no record whose location
\* was absent from its block or is empty, and only records whose location
\* contains the filter string, ignoring case.
C9_LocationFilter ==
    (pc = "filtered" /\ location_filter # <<>>) =>
        \A k \in 1..Len(filtered_df.rows) :
            /\ ~LocationAbsent(filtered_df.rows[k].label)
            /\ filtered_df.rows[k].cells.location # <<>>
            /\ ContainsIgnoringCase(filtered_df.rows[k].cells.location, location_filter)

\* C10: scatter and gather: every fetch is launched before any is awaited,
\* no record is written before every fetch of the batch has settled, each
\* record is written at most once, and once every fetch has settled the call
\* goes on to return to its caller.
C10_ScatterGatherBarrier ==
    /\ (\E k \in 1..Len(tasks) : tasks[k].st # "created") =>
          Len(tasks) = Len(Before.filtered_df.rows)
    /\ writes # <<>> => \A k \in 1..Len(tasks) : Settled(k)
    /\ \A a, b \in 1..Len(writes) : a # b => writes[a] # writes[b]
    /\ (\A k \in 1..Len(tasks) : Settled(k)) => pc # "raised"

====
